---- MODULE Spec2Model ----
(***************************************************************************)
(* SecureFileShredder: the single-file erasure state machine of            *)
(* src/file_shredder.py (FileShredder.shred_file and _verify_pattern),     *)
(* the batch loop around it (shred_files, with the Cancel of src/gui.py)   *)
(* and the file discovery (find_files, _check_file_content).               *)
(*                                                                         *)
(* A file is a sequence of byte values.  The 1 MiB chunk limit is scaled   *)
(* to ChunkLimit bytes so that files smaller than, equal to and larger     *)
(* than a chunk (with and without a short last chunk) all occur.           *)
(* Progress fractions are floats in the code; here they are exact          *)
(* rationals <<numerator, denominator>>.  The divisions the code performs  *)
(* are correctly rounded, so equal rationals are equal floats and an       *)
(* ordered pair of rationals is never reversed by rounding.                *)
(***************************************************************************)
EXTENDS Integers, Sequences, FiniteSets, TLC

\* ---------------------------------------------------------------- bounds
MaxSize == 5            \* largest file, in bytes
ChunkLimit == 2         \* the scaled "1024 * 1024" of shred_file
MaxPasses == 3          \* largest configured BASIC pass count
MaxCorrupt == 1         \* external single-byte changes per call
MaxFiles == 2           \* longest list handed to shred_files
MaxBatchSize == 2       \* largest file of a batch, in bytes
MaxBatchPasses == 1     \* largest BASIC pass count of a batch
MaxCandidates == 2      \* most files one find_files run enumerates
MaxText == 3            \* longest file text, in characters
MaxOccurrences == 2     \* largest content threshold
MaxTime == 2            \* latest timestamp
MaxSearches == 2        \* find threads running at once
MaxWorkers == 2         \* shred threads running at once
MaxQueue == 4           \* root.after callbacks waiting at once

\* ---------------------------------------------------------------- values
None == -1              \* Python's None where a byte pattern is expected
Ones == 255             \* b'\xFF'
Zeros == 0              \* b'\x00'
OrigBytes == {65}       \* byte values of the file before the shred
RandBytes == {0, 90, 255}            \* outcomes of random.randint(0, 255)
ByteVals == {0, 65, 90, 255}         \* values an external writer may store
PassCounts == (-1)..MaxPasses        \* FileShredder(passes=...) is unchecked

Min(a, b) == IF a < b THEN a ELSE b

\* self._dod_patterns: (pattern, pattern_type) for passes 1..7
dod_patterns ==
    << <<Ones, "ones">>, <<Zeros, "zeros">>, <<None, "random">>,
       <<Zeros, "zeros">>, <<Ones, "ones">>, <<None, "random">>,
       <<Zeros, "zeros">> >>

\* ------------------------------------------------------------- fractions
Frac(n, d) == <<n, d>>
One == Frac(1, 1)                                  \* the literal 1.0
Leq(a, b) == a[1] * b[2] <= b[1] * a[2]            \* a <= b, denominators > 0
IsOne(a) == a[1] = a[2]

VARIABLES
    method, passes, verify, callback,     \* FileShredder fields, callback given?
    exists, file, dirty,                  \* the file on the filesystem
    pc, result, err,                      \* position in shred_file, its result
    file_size, total_passes, progress_passes,
    pass_num, pattern, bytes_written, chunk_size,
    calls, progress_call, on_disk,        \* callback values, existence at each
    opens, removes, reads,                \* open / os.remove / verify counts
    passes_done, total_written, passes_at_remove,
    pass_log, verified, corrupt,
    \* shred_files and its caller
    files, disk,                          \* input paths, the files behind them
    has_progress_cb, has_complete_cb,     \* which callbacks were supplied
    bpc, loop_i, file_path, total_files,  \* position in shred_files, its locals
    successful, failed,
    started, results, complete_calls,     \* shred_file calls, file_complete calls
    is_shredding, cancel_at,              \* FileShredderApp.is_shredding
    \* find_files
    args, env,                            \* the call's arguments, the platform
    fpc,                                  \* position in find_files
    include_patterns, exclude_patterns, owner_regex,
    matching_files, excluded_count,
    seen, include_hits, latest,           \* candidates met, the latest one
    \* FileShredderApp
    find_btn, shred_btn, cancel_btn,      \* is the button enabled
    app_matching_files,                   \* len(self.matching_files)
    searches, workers,                    \* running find / shred threads
    after_queue                           \* root.after(0, ...) calls waiting

cfg == <<method, passes, verify, callback>>
fs == <<exists, file, dirty>>
locals == <<file_size, total_passes, progress_passes, pass_num, pattern,
            bytes_written, chunk_size>>
hist == <<calls, progress_call, on_disk, opens, removes, reads, passes_done, total_written,
          passes_at_remove, pass_log, verified, corrupt>>
batch == <<files, disk, has_progress_cb, has_complete_cb, bpc, loop_i,
           file_path,
           total_files, successful, failed, started, results, complete_calls,
           is_shredding, cancel_at>>
finder == <<args, env, fpc, include_patterns, exclude_patterns, owner_regex,
            matching_files, excluded_count, seen, include_hits, latest>>
gui == <<find_btn, shred_btn, cancel_btn, app_matching_files, searches,
         workers, after_queue>>
vars == <<cfg, fs, pc, result, err, locals, hist, batch, finder, gui>>

\* ----------------------------------------------------------------- Init
\* locals and records of a shred_file call that has not started
CallReset ==
    /\ dirty = 0
    /\ result = "pending"
    /\ err = "none"
    /\ file_size = 0
    /\ total_passes = 0
    /\ progress_passes = 0
    /\ pass_num = 0
    /\ pattern = None
    /\ bytes_written = 0
    /\ chunk_size = 0
    /\ calls = << >>
    /\ progress_call = << >>
    /\ on_disk = << >>
    /\ opens = 0
    /\ removes = 0
    /\ reads = 0
    /\ passes_done = 0
    /\ total_written = 0
    /\ passes_at_remove = -1
    /\ pass_log = << >>
    /\ verified = << >>
    /\ corrupt = << >>

\* the same for the call that starts now: fresh locals, fresh records
StartCall ==
    /\ dirty' = 0
    /\ result' = "pending"
    /\ err' = "none"
    /\ file_size' = 0
    /\ total_passes' = 0
    /\ progress_passes' = 0
    /\ pass_num' = 0
    /\ pattern' = None
    /\ bytes_written' = 0
    /\ chunk_size' = 0
    /\ calls' = << >>
    /\ progress_call' = << >>
    /\ on_disk' = << >>
    /\ opens' = 0
    /\ removes' = 0
    /\ reads' = 0
    /\ passes_done' = 0
    /\ total_written' = 0
    /\ passes_at_remove' = -1
    /\ pass_log' = << >>
    /\ verified' = << >>
    /\ corrupt' = << >>

\* no window
GuiOff ==
    /\ find_btn = FALSE
    /\ shred_btn = FALSE
    /\ cancel_btn = FALSE
    /\ app_matching_files = 0
    /\ searches = 0
    /\ workers = 0
    /\ after_queue = << >>

\* no find_files call
FinderOff ==
    /\ args = << >>
    /\ env = << >>
    /\ fpc = "off"
    /\ include_patterns = << >>
    /\ exclude_patterns = << >>
    /\ owner_regex = FALSE
    /\ matching_files = << >>
    /\ excluded_count = 0
    /\ seen = 0
    /\ include_hits = 0
    /\ latest = << >>

\* no shred_files call
BatchOff ==
    /\ files = << >>
    /\ disk = << >>
    /\ has_progress_cb = FALSE
    /\ has_complete_cb = FALSE
    /\ bpc = "off"
    /\ loop_i = -1
    /\ file_path = 0
    /\ total_files = 0
    /\ successful = 0
    /\ failed = 0
    /\ started = << >>
    /\ results = << >>
    /\ complete_calls = << >>
    /\ is_shredding = FALSE
    /\ cancel_at = -1

\* one call of shred_file on one path
Init ==
    /\ method \in {"basic", "dod"}
    /\ passes \in PassCounts
    /\ verify \in BOOLEAN
    /\ callback \in BOOLEAN
    /\ exists \in BOOLEAN
    /\ \E n \in 0..MaxSize : file \in [1..n -> OrigBytes]
    /\ pc = "call"
    /\ CallReset
    /\ BatchOff
    /\ FinderOff
    /\ GuiOff

\* ------------------------------------------------------ pure computations
\* total_passes: 7 for the standard method, self.passes for BASIC
TotalPasses(m, p) == IF m = "dod" THEN Len(dod_patterns) ELSE p

\* progress_passes: doubled when verification is enabled
ProgressPasses(tp, v) == IF v THEN tp * 2 ELSE tp

\* mutant: the loop stops one pass early (range(1, total_passes))
LoopTarget_OffByOne(k, tp) == IF k < tp THEN "open" ELSE "remove"

\* range(1, total_passes + 1): where the loop goes with loop variable k
LoopTarget(k, tp) == IF k <= tp THEN "open" ELSE "remove"

\* mutant: BASIC starts with zeros, then ones
PassPattern_Swapped(m, k, r) ==
    IF m = "dod"
    THEN IF dod_patterns[k][1] = None
         THEN <<r, dod_patterns[k][2]>>
         ELSE dod_patterns[k]
    ELSE IF k = 1 THEN <<Zeros, "zeros">>
         ELSE IF k = 2 THEN <<Ones, "ones">>
         ELSE <<r, "random">>

\* the pattern of pass k; r is the byte random.randint(0, 255) returns
PassPattern(m, k, r) ==
    IF m = "dod"
    THEN IF dod_patterns[k][1] = None
         THEN <<r, dod_patterns[k][2]>>
         ELSE dod_patterns[k]
    ELSE IF k = 1 THEN <<Ones, "ones">>
         ELSE IF k = 2 THEN <<Zeros, "zeros">>
         ELSE <<r, "random">>

\* chunk_size = min(1024 * 1024, file_size)
ChunkSize(fsz) == Min(ChunkLimit, fsz)

\* mutant: every iteration writes the whole buffer
ThisChunk_Full(bw, fsz, cs) == cs

\* number of bytes one iteration of the write loop writes
ThisChunk(bw, fsz, cs) ==
    LET remaining == fsz - bw
    IN  IF remaining < cs THEN remaining ELSE cs

\* f.write of n bytes b at offset off (a write past the end extends the file)
WriteAt(content, off, n, b) ==
    LET len == IF off + n > Len(content) THEN off + n ELSE Len(content)
    IN  [i \in 1..len |-> IF off < i /\ i <= off + n THEN b ELSE content[i]]

\* pass_progress = (pass_num - 1 + bytes_written / file_size) / progress_passes
WriteProgress(k, bw, fsz, pp) == Frac((k - 1) * fsz + bw, fsz * pp)

\* verify_progress = (pass_num - 0.5) / total_passes
VerifyProgress(k, tp) == Frac(2 * k - 1, 2 * tp)

Uniform(chunk, b) == \A i \in 1..Len(chunk) : chunk[i] = b

\* the read loop of _verify_pattern from offset bytes_verified
RECURSIVE VerifyFrom(_, _, _, _, _)
VerifyFrom(content, pat, fsz, cs, bytes_verified) ==
    IF bytes_verified >= fsz THEN TRUE
    ELSE LET remaining == fsz - bytes_verified
             verify_size == Min(cs, remaining)
             last == Min(bytes_verified + verify_size, Len(content))
             chunk == SubSeq(content, bytes_verified + 1, last)
         IN  IF pat = None
             THEN IF Uniform(chunk, Zeros) \/ Uniform(chunk, Ones)
                  THEN FALSE
                  ELSE VerifyFrom(content, pat, fsz, cs,
                                  bytes_verified + verify_size)
             ELSE IF chunk /= [i \in 1..verify_size |-> pat]
                  THEN FALSE
                  ELSE VerifyFrom(content, pat, fsz, cs,
                                  bytes_verified + verify_size)

\* mutant: only the first chunk is read back
verify_pattern_FirstChunk(content, pat, fsz, cs) ==
    VerifyFrom(content, pat, Min(fsz, cs), cs, 0)

\* _verify_pattern(file_handle, pattern, file_size, chunk_size)
verify_pattern(content, pat, fsz, cs) == VerifyFrom(content, pat, fsz, cs, 0)

\* overall_progress = (i + file_progress) / total_files
Overall_NextIndex(idx, f, total) == Frac((idx + 1) * f[2] + f[1], f[2] * total)
Overall(idx, f, total) == Frac(idx * f[2] + f[1], f[2] * total)

\* --------------------------------------------------------------- helpers
Return(r) == pc' = "done" /\ result' = r

\* callback(v): the value is handed to the callback
Report(v) ==
    /\ calls' = Append(calls, v)
    /\ on_disk' = Append(on_disk, exists)
    /\ progress_call' = IF bpc = "shredding" /\ has_progress_cb
                        THEN <<Overall(loop_i, v, total_files), file_path>>
                        ELSE progress_call

\* the pass is over: next iteration of the for loop
NextPass ==
    /\ pass_num' = pass_num + 1
    /\ pc' = LoopTarget(pass_num + 1, total_passes)

\* ------------------------------------------------------------ shred_file
\* mutant: no branch for empty files, they enter the pass loop
Enter_NoEmptyBranch ==
    /\ pc = "call"
    /\ IF ~exists
       THEN /\ Return("False")
            /\ UNCHANGED locals
       ELSE /\ file_size' = Len(file)
            /\ total_passes' = TotalPasses(method, passes)
            /\ progress_passes' = ProgressPasses(total_passes', verify)
            /\ pass_num' = 1
            /\ pc' = LoopTarget(1, total_passes')
            /\ UNCHANGED <<result, pattern, bytes_written, chunk_size>>
    /\ UNCHANGED <<gui, finder, cfg, batch, fs, err, hist>>

\* existence test, size, empty-file branch, pass counts
Enter ==
    /\ pc = "call"
    /\ IF ~exists
       THEN /\ Return("False")
            /\ UNCHANGED locals
       ELSE IF Len(file) = 0
       THEN /\ pc' = "remove_empty"
            /\ file_size' = 0
            /\ UNCHANGED <<result, total_passes, progress_passes, pass_num,
                           pattern, bytes_written, chunk_size>>
       ELSE /\ file_size' = Len(file)
            /\ total_passes' = TotalPasses(method, passes)
            /\ progress_passes' = ProgressPasses(total_passes', verify)
            /\ pass_num' = 1
            /\ pc' = LoopTarget(1, total_passes')
            /\ UNCHANGED <<result, pattern, bytes_written, chunk_size>>
    /\ UNCHANGED <<gui, finder, cfg, batch, fs, err, hist>>

\* os.remove of an empty file, return True
RemoveEmpty ==
    /\ pc = "remove_empty"
    /\ exists' = FALSE
    /\ removes' = removes + 1
    /\ Return("True")
    /\ UNCHANGED <<gui, finder, cfg, batch, file, dirty, err, locals, calls, progress_call, on_disk, opens,
                   reads, passes_done, total_written, passes_at_remove,
                   pass_log, verified, corrupt>>

\* open(file_path, "rb+"), pattern of the pass, buffer
OpenPass ==
    /\ pc = "open"
    /\ opens' = opens + 1
    /\ \E r \in RandBytes :
          /\ pattern' = PassPattern(method, pass_num, r)[1]
          /\ pass_log' = Append(pass_log, PassPattern(method, pass_num, r))
    /\ bytes_written' = 0
    /\ chunk_size' = ChunkSize(file_size)
    /\ pc' = "while"
    /\ UNCHANGED <<gui, finder, cfg, batch, fs, result, err, file_size, total_passes,
                   progress_passes, pass_num, calls, progress_call, on_disk, removes, reads,
                   passes_done, total_written, passes_at_remove, verified,
                   corrupt>>

\* one f.write of the write loop
WriteChunk ==
    /\ pc = "write"
    /\ LET n == ThisChunk(bytes_written, file_size, chunk_size)
       IN  /\ file' = WriteAt(file, bytes_written, n, pattern)
           /\ bytes_written' = bytes_written + n
           /\ dirty' = dirty + n
           /\ total_written' = total_written + n
    /\ pc' = "sync"
    /\ UNCHANGED <<gui, finder, cfg, batch, exists, result, err, file_size, total_passes,
                   progress_passes, pass_num, pattern, chunk_size, calls, progress_call,
                   on_disk, opens, removes, reads, passes_done,
                   passes_at_remove, pass_log, verified, corrupt>>

\* mutant: the chunk is not forced to the device
FlushSync_Skipped ==
    /\ pc = "sync"
    /\ passes_done' = IF bytes_written >= file_size
                      THEN passes_done + 1 ELSE passes_done
    /\ pc' = "report"
    /\ UNCHANGED <<gui, finder, cfg, batch, fs, result, err, locals, calls, progress_call, on_disk, opens,
                   removes, reads, total_written, passes_at_remove, pass_log,
                   verified, corrupt>>

\* f.flush(); os.fsync(f.fileno())
FlushSync ==
    /\ pc = "sync"
    /\ dirty' = 0
    /\ passes_done' = IF bytes_written >= file_size
                      THEN passes_done + 1 ELSE passes_done
    /\ pc' = "report"
    /\ UNCHANGED <<gui, finder, cfg, batch, exists, file, result, err, locals, calls, progress_call, on_disk,
                   opens, removes, reads, total_written, passes_at_remove,
                   pass_log, verified, corrupt>>

\* while bytes_written < file_size: ...; after the loop, verify or next pass
WhileTest ==
    /\ pc = "while"
    /\ IF bytes_written < file_size
       THEN pc' = "write" /\ UNCHANGED pass_num
       ELSE IF verify
       THEN pc' = "verify" /\ UNCHANGED pass_num
       ELSE NextPass
    /\ UNCHANGED <<gui, finder, cfg, batch, fs, result, err, file_size, total_passes,
                   progress_passes, pattern, bytes_written, chunk_size, hist>>

\* progress after a chunk
ReportWrite ==
    /\ pc = "report"
    /\ IF callback
       THEN Report(WriteProgress(pass_num, bytes_written, file_size,
                                 progress_passes))
       ELSE UNCHANGED <<calls, progress_call, on_disk>>
    /\ pc' = "while"
    /\ UNCHANGED <<gui, finder, cfg, batch, fs, result, err, locals, opens, removes, reads,
                   passes_done, total_written, passes_at_remove, pass_log,
                   verified, corrupt>>

\* mutant: the result of the verification is ignored
VerifyPass_IgnoresFailure ==
    /\ pc = "verify"
    /\ reads' = reads + 1
    /\ LET ok == verify_pattern(file, pattern, file_size, chunk_size)
       IN  verified' = Append(verified, ok)
    /\ pc' = "vreport"
    /\ UNCHANGED <<gui, finder, cfg, batch, fs, result, err, locals, calls, progress_call, on_disk, opens,
                   removes, passes_done, total_written, passes_at_remove,
                   pass_log, corrupt>>

\* self._verify_pattern(f, pattern, file_size, chunk_size)
VerifyPass ==
    /\ pc = "verify"
    /\ reads' = reads + 1
    /\ LET ok == verify_pattern(file, pattern, file_size, chunk_size)
       IN  /\ verified' = Append(verified, ok)
           /\ IF ok THEN pc' = "vreport" /\ UNCHANGED result
                    ELSE Return("False")
    /\ UNCHANGED <<gui, finder, cfg, batch, fs, err, locals, calls, progress_call, on_disk, opens, removes,
                   passes_done, total_written, passes_at_remove, pass_log,
                   corrupt>>

\* progress after a successful verification, end of the pass
ReportVerify ==
    /\ pc = "vreport"
    /\ IF callback
       THEN Report(VerifyProgress(pass_num, total_passes))
       ELSE UNCHANGED <<calls, progress_call, on_disk>>
    /\ NextPass
    /\ UNCHANGED <<gui, finder, cfg, batch, fs, result, err, file_size, total_passes,
                   progress_passes, pattern, bytes_written, chunk_size, opens,
                   removes, reads, passes_done, total_written,
                   passes_at_remove, pass_log, verified, corrupt>>

\* os.remove(file_path) after the passes
RemoveFile ==
    /\ pc = "remove"
    /\ exists' = FALSE
    /\ removes' = removes + 1
    /\ passes_at_remove' = passes_done
    /\ pc' = "final"
    /\ UNCHANGED <<gui, finder, cfg, batch, file, dirty, result, err, locals, calls, progress_call, on_disk,
                   opens, reads, passes_done, total_written, pass_log,
                   verified, corrupt>>

\* mutant: no final progress update
FinalProgress_Silent ==
    /\ pc = "final"
    /\ Return("True")
    /\ UNCHANGED <<gui, finder, cfg, batch, fs, err, locals, hist>>

\* callback(1.0); return True
FinalProgress ==
    /\ pc = "final"
    /\ IF callback THEN Report(One) ELSE UNCHANGED <<calls, progress_call, on_disk>>
    /\ Return("True")
    /\ UNCHANGED <<gui, finder, cfg, batch, fs, err, locals, opens, removes, reads, passes_done,
                   total_written, passes_at_remove, pass_log, verified,
                   corrupt>>

\* ------------------------------------------------- failures: except branch
\* mutant: no except branch, the error leaves shred_file
Fail_Propagates(kind) == pc' = "done" /\ result' = "raised" /\ err' = kind

Fail(kind) == Return("False") /\ err' = kind

\* open raises
OpenFails ==
    /\ pc = "open"
    /\ Fail("open")
    /\ UNCHANGED <<gui, finder, cfg, batch, fs, locals, hist>>

\* f.write raises
WriteFails ==
    /\ pc = "write"
    /\ Fail("write")
    /\ UNCHANGED <<gui, finder, cfg, batch, fs, locals, hist>>

\* f.flush or os.fsync raises: the chunk stays unsynced
SyncFails ==
    /\ pc = "sync"
    /\ Fail("sync")
    /\ UNCHANGED <<gui, finder, cfg, batch, fs, locals, hist>>

\* the callback raises after it was handed its value
CallbackRaises ==
    /\ callback
    /\ bpc = "off" \/ has_progress_cb
    /\ pc \in {"report", "vreport", "final"}
    /\ Report(CASE pc = "report" ->
                     WriteProgress(pass_num, bytes_written, file_size,
                                   progress_passes)
                [] pc = "vreport" -> VerifyProgress(pass_num, total_passes)
                [] pc = "final" -> One)
    /\ Fail("callback")
    /\ UNCHANGED <<gui, finder, cfg, batch, fs, locals, opens, removes, reads, passes_done,
                   total_written, passes_at_remove, pass_log, verified,
                   corrupt>>

\* a read inside _verify_pattern raises: it returns False
ReadFails ==
    /\ pc = "verify"
    /\ reads' = reads + 1
    /\ verified' = Append(verified, FALSE)
    /\ Fail("read")
    /\ UNCHANGED <<gui, finder, cfg, batch, fs, locals, calls, progress_call, on_disk, opens, removes,
                   passes_done, total_written, passes_at_remove, pass_log,
                   corrupt>>

\* os.remove raises: the file stays
RemoveFails ==
    /\ pc \in {"remove", "remove_empty"}
    /\ removes' = removes + 1
    /\ Fail("remove")
    /\ UNCHANGED <<gui, finder, cfg, batch, fs, locals, calls, progress_call, on_disk, opens, reads,
                   passes_done, total_written, passes_at_remove, pass_log,
                   verified, corrupt>>

\* ------------------------------------------------------------ environment
\* another writer changes one byte between a pass's write and its verification
\* (followed for single calls only)
Corrupt ==
    /\ bpc = "off"
    /\ pc = "verify"
    /\ Len(corrupt) < MaxCorrupt
    /\ \E i \in 1..Len(file) : \E b \in ByteVals \ {file[i]} :
          /\ file' = [file EXCEPT ![i] = b]
          /\ corrupt' = Append(corrupt, <<pass_num, i>>)
    /\ UNCHANGED <<gui, finder, cfg, batch, exists, dirty, pc, result, err, locals, calls, progress_call,
                   on_disk, opens, removes, reads, passes_done, total_written,
                   passes_at_remove, pass_log, verified>>

Next ==
    \/ Enter
    \/ RemoveEmpty
    \/ OpenPass
    \/ WhileTest
    \/ WriteChunk
    \/ FlushSync
    \/ ReportWrite
    \/ VerifyPass
    \/ ReportVerify
    \/ RemoveFile
    \/ FinalProgress
    \/ OpenFails
    \/ WriteFails
    \/ SyncFails
    \/ CallbackRaises
    \/ ReadFails
    \/ RemoveFails
    \/ Corrupt

Spec == Init /\ [][Next]_vars

\* ----------------------------------------------------------- shred_files
\* the files a batch can meet: missing, or existing with 0..MaxBatchSize bytes
DiskFiles ==
    {[exists |-> FALSE, content |-> << >>]} \cup
    {[exists |-> TRUE, content |-> c] :
        c \in UNION {[1..n -> OrigBytes] : n \in 0..MaxBatchSize}}

\* FileShredderApp._shred_files has set is_shredding and started the worker,
\* which calls shredder.shred_files(files_to_shred, ...)
InitBatch ==
    /\ method = "basic"
    /\ passes \in 1..MaxBatchPasses
    /\ verify \in BOOLEAN
    /\ callback = TRUE
    /\ exists = FALSE
    /\ file = << >>
    /\ pc = "idle"
    /\ CallReset
    /\ \E n \in 0..MaxFiles :
          /\ files = [j \in 1..n |-> j]
          /\ disk \in [1..n -> DiskFiles]
    /\ has_progress_cb \in BOOLEAN
    /\ has_complete_cb \in BOOLEAN
    /\ bpc = "enter"
    /\ loop_i = -1
    /\ file_path = 0
    /\ total_files = 0
    /\ successful = 0
    /\ failed = 0
    /\ started = << >>
    /\ results = << >>
    /\ complete_calls = << >>
    /\ is_shredding = TRUE
    /\ cancel_at = -1
    /\ FinderOff
    /\ find_btn = FALSE
    /\ shred_btn = FALSE
    /\ cancel_btn = TRUE
    /\ app_matching_files = Len(files)
    /\ searches = 0
    /\ workers = 1
    /\ after_queue = << >>

\* total_files, the empty-list return, the counters
BatchEnter ==
    /\ bpc = "enter"
    /\ total_files' = Len(files)
    /\ bpc' = IF Len(files) = 0 THEN "returned" ELSE "loop"
    /\ successful' = 0
    /\ failed' = 0
    /\ UNCHANGED <<gui, finder, cfg, fs, pc, result, err, locals, hist, files, disk,
                   has_progress_cb, has_complete_cb, loop_i, file_path,
                   started, results, complete_calls, is_shredding, cancel_at>>

\* for i, file_path in enumerate(files): the closure, the call of shred_file;
\* after the last path, return successful, failed
BatchNextFile ==
    /\ bpc = "loop"
    /\ IF loop_i + 1 < total_files
       THEN /\ loop_i' = loop_i + 1
            /\ file_path' = files[loop_i + 2]
            /\ started' = Append(started, loop_i + 1)
            /\ exists' = disk[file_path'].exists
            /\ file' = disk[file_path'].content
            /\ pc' = "call"
            /\ StartCall
            /\ bpc' = "shredding"
       ELSE /\ bpc' = "returned"
            /\ UNCHANGED <<fs, pc, result, err, locals, hist, loop_i,
                           file_path, started>>
    /\ UNCHANGED <<gui, finder, cfg, files, disk, has_progress_cb, has_complete_cb,
                   total_files, successful, failed, results, complete_calls,
                   is_shredding, cancel_at>>

\* result = self.shred_file(...); successful += 1 or failed += 1; the frame
\* of the finished call is gone
BatchAfterShred ==
    /\ bpc = "shredding"
    /\ pc = "done"
    /\ results' = Append(results, result)
    /\ IF result = "True"
       THEN successful' = successful + 1 /\ UNCHANGED failed
       ELSE failed' = failed + 1 /\ UNCHANGED successful
    /\ disk' = [disk EXCEPT ![file_path] =
                   [exists |-> exists, content |-> file]]
    /\ pc' = "idle"
    /\ exists' = FALSE
    /\ file' = << >>
    /\ StartCall
    /\ bpc' = IF has_complete_cb THEN "complete_cb" ELSE "loop"
    /\ UNCHANGED <<gui, finder, cfg, files, has_progress_cb, has_complete_cb, loop_i,
                   file_path, total_files, started, complete_calls,
                   is_shredding, cancel_at>>

\* file_complete_callback(file_path, result) returns
CompleteCallback ==
    /\ bpc = "complete_cb"
    /\ complete_calls' =
          Append(complete_calls, <<file_path, results[Len(results)] = "True">>)
    /\ bpc' = "loop"
    /\ UNCHANGED <<gui, finder, cfg, fs, pc, result, err, locals, hist, files, disk,
                   has_progress_cb, has_complete_cb, loop_i, file_path,
                   total_files, successful, failed, started, results,
                   is_shredding, cancel_at>>

\* file_complete_callback(file_path, result) raises: except branch, failed += 1
CompleteCallbackRaises ==
    /\ bpc = "complete_cb"
    /\ complete_calls' =
          Append(complete_calls, <<file_path, results[Len(results)] = "True">>)
    /\ failed' = failed + 1
    /\ bpc' = "handler_cb"
    /\ UNCHANGED <<gui, finder, cfg, fs, pc, result, err, locals, hist, files, disk,
                   has_progress_cb, has_complete_cb, loop_i, file_path,
                   total_files, successful, started, results, is_shredding,
                   cancel_at>>

\* except branch: file_complete_callback(file_path, False) returns
HandlerCallback ==
    /\ bpc = "handler_cb"
    /\ complete_calls' = Append(complete_calls, <<file_path, FALSE>>)
    /\ bpc' = "loop"
    /\ UNCHANGED <<gui, finder, cfg, fs, pc, result, err, locals, hist, files, disk,
                   has_progress_cb, has_complete_cb, loop_i, file_path,
                   total_files, successful, failed, started, results,
                   is_shredding, cancel_at>>

\* except branch: file_complete_callback(file_path, False) raises; nothing
\* catches it, the exception leaves shred_files
HandlerCallbackRaises ==
    /\ bpc = "handler_cb"
    /\ complete_calls' = Append(complete_calls, <<file_path, FALSE>>)
    /\ bpc' = "raised"
    /\ UNCHANGED <<gui, finder, cfg, fs, pc, result, err, locals, hist, files, disk,
                   has_progress_cb, has_complete_cb, loop_i, file_path,
                   total_files, successful, failed, started, results,
                   is_shredding, cancel_at>>

\* FileShredderApp._cancel_operation, confirmed by the user while a file is
\* being shredded (or, where the batch is not followed, at any time)
Cancel ==
    /\ cancel_btn
    /\ is_shredding
    /\ bpc \in {"shredding", "off"}
    /\ is_shredding' = FALSE
    /\ cancel_at' = loop_i
    /\ UNCHANGED <<gui, finder, cfg, fs, pc, result, err, locals, hist, files, disk,
                   has_progress_cb, has_complete_cb, bpc, loop_i, file_path,
                   total_files, successful, failed, started, results,
                   complete_calls>>

NextBatch ==
    \/ Enter
    \/ RemoveEmpty
    \/ OpenPass
    \/ WhileTest
    \/ WriteChunk
    \/ FlushSync
    \/ ReportWrite
    \/ VerifyPass
    \/ ReportVerify
    \/ RemoveFile
    \/ FinalProgress
    \/ OpenFails
    \/ WriteFails
    \/ SyncFails
    \/ CallbackRaises
    \/ ReadFails
    \/ RemoveFails
    \/ BatchEnter
    \/ BatchNextFile
    \/ BatchAfterShred
    \/ CompleteCallback
    \/ CompleteCallbackRaises
    \/ HandlerCallback
    \/ HandlerCallbackRaises
    \/ Cancel

SpecBatch == InitBatch /\ [][NextBatch]_vars

\* ------------------------------------------------------------ find_files
\* A file name is a stem and an extension; a glob is a stem and an extension
\* either of which may be "*".  A raw pattern argument is the list of its
\* pieces between the separators "," and ";"; Blank is a piece that is empty
\* after strip().
Stems == {"a", "b"}
Exts == {"txt", "json", "pdf", "png"}
Names == [stem : Stems, ext : Exts]
Glob(st, ex) == [stem |-> st, ext |-> ex]
Blank == Glob("", "")

\* extensions find_files sends to the content check (".txt", ".csv"), image
\* extensions, and the plain-text extensions _check_file_content reads
\* (".txt", ".csv", ".json", ".xml", ".html", ".js", ".py", ".md")
GateTextExts == {"txt"}
ImageExts == {"png"}
TextExts == {"txt", "json"}

\* file texts: strings over "s" and "S"
Texts == UNION {[1..n -> {"s", "S"}] : n \in 0..MaxText}
Times == 0..MaxTime

\* [p.strip() for p in re.split(r'[,;]', pattern) if p.strip()]
Split(raw) == SelectSeq(raw, LAMBDA p : p # Blank)

\* fnmatch.fnmatch(filename, p)
Fnmatch(name, p) ==
    /\ p.stem = "*" \/ p.stem = name.stem
    /\ p.ext = "*" \/ p.ext = name.ext

\* any(fnmatch.fnmatch(filename, p) for p in include_patterns)
AnyMatch(name, pats) == \E k \in 1..Len(pats) : Fnmatch(name, pats[k])

\* any(... for p in exclude_patterns) if exclude_patterns else False
NameExcluded_FirstOnly(name, pats) ==
    IF pats # << >> THEN Fnmatch(name, pats[1]) ELSE FALSE

NameExcluded(name, pats) ==
    IF pats # << >> THEN AnyMatch(name, pats) ELSE FALSE

\* truth value of an optional timestamp / of an optional string
TruthyTime(t) == t # None /\ t # 0
TruthyText(t) == t # << >>

\* text.count(pattern): non-overlapping occurrences, left to right
RECURSIVE CountFrom(_, _, _)
CountFrom(text, pat, k) ==
    IF k + Len(pat) - 1 > Len(text) THEN 0
    ELSE IF SubSeq(text, k, k + Len(pat) - 1) = pat
         THEN 1 + CountFrom(text, pat, k + Len(pat))
         ELSE CountFrom(text, pat, k + 1)

Count(text, pat) == CountFrom(text, pat, 1)

\* str.lower()
Lower(text) == [k \in 1..Len(text) |-> IF text[k] = "S" THEN "s" ELSE text[k]]

\* occurrences >= min_occurrences
MeetsThreshold_Strict(occ, t) == occ > t

MeetsThreshold(occ, t) == occ >= t

\* _check_file_content(file_path, content_pattern, min_occurrences) on the
\* candidate c: (found, occurrences); every failure gives (False, 0)
check_file_content(c, pat, t) ==
    IF c.name.ext = "pdf"
    THEN IF ~env.PyPDF2 \/ c.fault = "read"
         THEN <<FALSE, 0>>
         ELSE LET occurrences == Count(c.text, pat)
              IN  <<MeetsThreshold(occurrences, t), occurrences>>
    ELSE IF env.ocr_support_available /\ c.name.ext \in ImageExts
    THEN IF c.fault = "read"
         THEN <<MeetsThreshold(0, t), 0>>
         ELSE LET occurrences == Count(Lower(c.text), Lower(pat))
              IN  <<MeetsThreshold(occurrences, t), occurrences>>
    ELSE IF c.name.ext \in TextExts
    THEN IF c.fault = "read"
         THEN <<FALSE, 0>>
         ELSE LET occurrences == Count(c.text, pat)
              IN  <<MeetsThreshold(occurrences, t), occurrences>>
    ELSE <<FALSE, 0>>

\* is_text or is_pdf or (is_image and ocr_enabled and ocr_support_available)
ContentGate(name) ==
    \/ name.ext \in GateTextExts
    \/ name.ext = "pdf" /\ env.PyPDF2
    \/ name.ext \in ImageExts /\ args.ocr_enabled /\ env.ocr_support_available

\* the four time tests
TimeExcluded(c) ==
    \/ TruthyTime(args.created_after) /\ c.ctime < args.created_after
    \/ TruthyTime(args.created_before) /\ c.ctime > args.created_before
    \/ TruthyTime(args.modified_after) /\ c.mtime < args.modified_after
    \/ TruthyTime(args.modified_before) /\ c.mtime > args.modified_before

\* the owner test; without pwd, or for an unknown uid, nothing is excluded
OwnerExcluded(c) == owner_regex /\ env.pwd /\ c.owner = "nomatch"

\* excluded_count += 1 happens for a candidate that is_match and is_excluded
CountExcluded_AnyExcluded(is_match, is_excluded) ==
    IF is_excluded THEN 1 ELSE 0

CountExcluded(is_match, is_excluded) ==
    IF is_match /\ is_excluded THEN 1 ELSE 0

\* the loop body of find_files for one candidate: its flags, its annotation
\* and the I/O it caused
Evaluate(c) ==
    LET is_match == AnyMatch(c.name, include_patterns)
        ex_name == NameExcluded(c.name, exclude_patterns)
        body == is_match /\ ~ex_name
        stat_ok == c.fault # "stat"
        ex_meta == TimeExcluded(c) \/ OwnerExcluded(c)
        do_inc == /\ body /\ stat_ok
                  /\ TruthyText(args.content_pattern)
                  /\ ~ex_meta
                  /\ ContentGate(c.name)
        inc == check_file_content(c, args.content_pattern,
                                  args.content_min_occurrences)
        ex_inc == IF do_inc THEN ~inc[1] ELSE ex_meta
        do_exc == /\ body /\ stat_ok
                  /\ TruthyText(args.exclude_content_pattern)
                  /\ ~ex_inc
                  /\ ContentGate(c.name)
        exc == check_file_content(c, args.exclude_content_pattern,
                                  args.exclude_content_min_occurrences)
        ex_exc == IF do_exc /\ exc[1] THEN TRUE ELSE ex_inc
    IN  [is_match |-> is_match,
         is_excluded |-> IF ~body THEN ex_name
                         ELSE IF ~stat_ok THEN TRUE
                         ELSE ex_exc,
         info |-> [include |-> IF do_inc /\ inc[1] THEN inc[2] ELSE None,
                   exclude |-> IF do_exc /\ exc[1] THEN exc[2] ELSE None],
         stats |-> IF body THEN 1 ELSE 0,
         lookups |-> IF body /\ stat_ok /\ owner_regex /\ env.pwd
                     THEN 1 ELSE 0,
         checks |-> (IF do_inc THEN 1 ELSE 0) + (IF do_exc THEN 1 ELSE 0)]

\* the defaults of find_files' signature
DefaultArgs ==
    [pattern |-> <<Glob("*", "*")>>,
     recursive |-> FALSE,
     exclude_pattern |-> << >>,
     owner_pattern |-> "none",
     created_after |-> None,
     created_before |-> None,
     modified_after |-> None,
     modified_before |-> None,
     content_pattern |-> << >>,
     content_min_occurrences |-> 1,
     exclude_content_pattern |-> << >>,
     exclude_content_min_occurrences |-> 1,
     ocr_enabled |-> TRUE]

IncludeRaws ==
    { <<Glob("*", "*")>>,
      <<Glob("*", "txt"), Blank, Glob("a", "*")>>,
      <<Glob("*", "json")>> }
ExcludeRaws ==
    { << >>,
      <<Glob("b", "*")>>,
      <<Blank, Glob("*", "pdf"), Glob("a", "txt")>> }
ContentPatterns == { <<"s">>, <<"s", "s">> }
ExcludeContentPatterns == { <<"S">> }

\* calls that vary the name filters
GlobArgs ==
    {[DefaultArgs EXCEPT !.pattern = p, !.exclude_pattern = e,
                         !.recursive = r, !.created_after = ca] :
        p \in IncludeRaws, e \in ExcludeRaws, r \in BOOLEAN,
        ca \in {None, 1}}

\* calls that vary the content filters
ContentArgs ==
    {[DefaultArgs EXCEPT !.exclude_pattern = e, !.ocr_enabled = o,
                         !.content_pattern = cp,
                         !.content_min_occurrences = t,
                         !.exclude_content_pattern = xp,
                         !.exclude_content_min_occurrences = xt] :
        e \in {<< >>, <<Glob("b", "*")>>}, o \in BOOLEAN,
        cp \in ContentPatterns \cup {<< >>}, t \in 1..MaxOccurrences,
        xp \in ExcludeContentPatterns \cup {<< >>}, xt \in 1..MaxOccurrences}

\* calls that vary the metadata filters
MetaArgs ==
    {[DefaultArgs EXCEPT !.owner_pattern = ow, !.created_after = ca,
                         !.modified_before = mb, !.recursive = r] :
        ow \in {"none", "valid", "invalid"}, ca \in {None, 1},
        mb \in {None, 1}, r \in BOOLEAN}

\* calls that vary the four time bounds, the timestamp 0 included
TimeArgs ==
    {[DefaultArgs EXCEPT !.created_after = ca, !.created_before = cb,
                         !.modified_after = ma, !.modified_before = mb] :
        ca \in {None, 0, 1}, cb \in {None, 0, 1},
        ma \in {None, 0, 1}, mb \in {None, 0, 1}}

FindArgs == GlobArgs \cup ContentArgs \cup MetaArgs \cup TimeArgs

UsesCtime(a) == a.created_after # None \/ a.created_before # None
UsesMtime(a) == a.modified_after # None \/ a.modified_before # None
UsesContent(a) ==
    TruthyText(a.content_pattern) \/ TruthyText(a.exclude_content_pattern)

\* the files a run can enumerate; an attribute that no configured filter of
\* the call reads is left at one value
Candidates(a) ==
    {[name |-> n, ctime |-> ct, mtime |-> mt, owner |-> ow, text |-> tx,
      fault |-> fl] :
        n \in Names,
        ct \in IF UsesCtime(a) THEN Times ELSE {0},
        mt \in IF UsesMtime(a) THEN Times ELSE {0},
        ow \in IF a.owner_pattern = "valid"
               THEN {"match", "nomatch", "unknown"} ELSE {"match"},
        tx \in IF UsesContent(a) THEN Texts ELSE {<< >>},
        fl \in IF UsesContent(a) THEN {"none", "stat", "read"}
               ELSE {"none", "stat"}}

\* platforms: are the optional extractors there (the OCR module, PyPDF2
\* loaded), is pwd importable; and is the root a directory that can be
\* listed
Envs(a) ==
    {[ocr_support_available |-> x, PyPDF2 |-> x, pwd |-> w, root |-> rt] :
        x \in IF UsesContent(a) THEN BOOLEAN ELSE {FALSE},
        w \in IF a.owner_pattern = "valid" THEN BOOLEAN ELSE {TRUE},
        rt \in {"dir", "untraversable"}}

\* no shred_file and no shred_files call
ShredOff ==
    /\ method = "basic"
    /\ passes = 1
    /\ verify = FALSE
    /\ callback = FALSE
    /\ exists = FALSE
    /\ file = << >>
    /\ pc = "idle"
    /\ CallReset
    /\ BatchOff

\* find_files(directory, pattern, ...) has been called
InitFind ==
    /\ ShredOff
    /\ GuiOff
    /\ args \in FindArgs
    /\ env \in Envs(args)
    /\ fpc = "enter"
    /\ include_patterns = << >>
    /\ exclude_patterns = << >>
    /\ owner_regex = FALSE
    /\ matching_files = << >>
    /\ excluded_count = 0
    /\ seen = 0
    /\ include_hits = 0
    /\ latest = << >>

\* mutant: the owner pattern is not compiled before the traversal
FindEnter_CompileLate ==
    /\ fpc = "enter"
    /\ owner_regex' = (args.owner_pattern = "valid")
    /\ include_patterns' = Split(args.pattern)
    /\ exclude_patterns' = IF args.exclude_pattern # << >>
                           THEN Split(args.exclude_pattern)
                           ELSE << >>
    /\ fpc' = "list"
    /\ UNCHANGED <<gui, cfg, fs, pc, result, err, locals, hist, batch, args, env,
                   matching_files, excluded_count, seen, include_hits, latest>>

\* re.compile(owner_pattern), ValueError for an invalid one; the two splits
FindEnter ==
    /\ fpc = "enter"
    /\ IF args.owner_pattern = "invalid"
       THEN /\ fpc' = "raised"
            /\ UNCHANGED <<include_patterns, exclude_patterns, owner_regex>>
       ELSE /\ owner_regex' = (args.owner_pattern = "valid")
            /\ include_patterns' = Split(args.pattern)
            /\ exclude_patterns' = IF args.exclude_pattern # << >>
                                   THEN Split(args.exclude_pattern)
                                   ELSE << >>
            /\ fpc' = "list"
    /\ UNCHANGED <<gui, cfg, fs, pc, result, err, locals, hist, batch, args, env,
                   matching_files, excluded_count, seen, include_hits, latest>>

\* os.walk(directory) / os.listdir(directory) delivers
FindList ==
    /\ fpc = "list"
    /\ env.root = "dir"
    /\ fpc' = "scan"
    /\ UNCHANGED <<gui, cfg, fs, pc, result, err, locals, hist, batch, args, env,
                   include_patterns, exclude_patterns, owner_regex,
                   matching_files, excluded_count, seen, include_hits, latest>>

\* the directory cannot be listed: os.walk swallows the error and yields
\* nothing, os.listdir raises and the outer handler re-raises
FindListFails ==
    /\ fpc = "list"
    /\ env.root = "untraversable"
    /\ fpc' = IF args.recursive THEN "returned" ELSE "raised"
    /\ UNCHANGED <<gui, cfg, fs, pc, result, err, locals, hist, batch, args, env,
                   include_patterns, exclude_patterns, owner_regex,
                   matching_files, excluded_count, seen, include_hits, latest>>

\* one iteration of the loop over the enumerated files
FindCandidate ==
    /\ fpc = "scan"
    /\ seen < MaxCandidates
    /\ \E c \in Candidates(args) :
          LET r == Evaluate(c)
          IN  /\ matching_files' =
                    IF r.is_match /\ ~r.is_excluded
                    THEN Append(matching_files, <<seen + 1, r.info>>)
                    ELSE matching_files
              /\ excluded_count' = excluded_count +
                    CountExcluded(r.is_match, r.is_excluded)
              /\ include_hits' = include_hits +
                    (IF AnyMatch(c.name, include_patterns) THEN 1 ELSE 0)
              /\ latest' = [c |-> c, r |-> r]
    /\ seen' = seen + 1
    /\ fpc' = "filed"
    /\ UNCHANGED <<gui, cfg, fs, pc, result, err, locals, hist, batch, args, env,
                   include_patterns, exclude_patterns, owner_regex>>

\* back to the loop head: the locals of the finished iteration are dead
FindNext ==
    /\ fpc = "filed"
    /\ fpc' = "scan"
    /\ latest' = << >>
    /\ UNCHANGED <<gui, cfg, fs, pc, result, err, locals, hist, batch, args, env,
                   include_patterns, exclude_patterns, owner_regex,
                   matching_files, excluded_count, seen, include_hits>>

\* the enumeration is exhausted: return matching_files, excluded_count
FindReturn ==
    /\ fpc = "scan"
    /\ fpc' = "returned"
    /\ UNCHANGED <<gui, cfg, fs, pc, result, err, locals, hist, batch, args, env,
                   include_patterns, exclude_patterns, owner_regex,
                   matching_files, excluded_count, seen, include_hits, latest>>

NextFind ==
    \/ FindEnter
    \/ FindList
    \/ FindListFails
    \/ FindCandidate
    \/ FindNext
    \/ FindReturn

SpecFind == InitFind /\ [][NextFind]_vars

\* ======================================================= FileShredderApp
\* The window: Tk runs every event handler and every root.after callback on
\* the main thread, one at a time; the find thread and the shred thread run
\* beside it and hand their results back through root.after(0, ...).
\* What shred_files does inside a worker is the subject of SpecBatch; here a
\* worker is a thread that is inside shred_files until it returns or raises.
worker_vars == <<cfg, fs, pc, result, err, locals, hist, finder, files, disk,
                 has_progress_cb, has_complete_cb, bpc, loop_i, file_path,
                 total_files, successful, failed, started, results,
                 complete_calls>>

\* FileShredderApp.__init__ and _create_widgets: Find enabled, Shred and
\* Cancel disabled, no matches, nothing running
InitGui ==
    /\ ShredOff
    /\ FinderOff
    /\ find_btn = TRUE
    /\ shred_btn = FALSE
    /\ cancel_btn = FALSE
    /\ app_matching_files = 0
    /\ searches = 0
    /\ workers = 0
    /\ after_queue = << >>

\* root.after(0, callback) for each callback of cbs, in order
After(cbs) == after_queue \o cbs

\* FileShredderApp._find_files, from the Find button or from <Return> in an
\* entry field (the binding does not look at the button), with a directory
\* and a pattern that pass the three input checks
FindFiles ==
    /\ \E by \in {"button", "enter"} : by = "button" => find_btn
    /\ searches < MaxSearches
    /\ find_btn' = FALSE
    /\ searches' = searches + 1
    /\ UNCHANGED <<worker_vars, is_shredding, cancel_at, shred_btn, cancel_btn,
                   app_matching_files, workers, after_queue>>

\* FileShredderApp._find_files_thread: find_files returns n matched files
FindFilesThreadReturns ==
    /\ searches > 0
    /\ Len(after_queue) + 2 <= MaxQueue
    /\ \E n \in 0..MaxFiles : app_matching_files' = n
    /\ after_queue' = After(<<"_update_file_list", "_reset_search_ui">>)
    /\ searches' = searches - 1
    /\ UNCHANGED <<worker_vars, is_shredding, cancel_at, find_btn, shred_btn,
                   cancel_btn, workers>>

\* FileShredderApp._find_files_thread: a date does not parse or find_files
\* raises
FindFilesThreadRaises ==
    /\ searches > 0
    /\ Len(after_queue) + 2 <= MaxQueue
    /\ after_queue' = After(<<"_show_error", "_reset_search_ui">>)
    /\ searches' = searches - 1
    /\ UNCHANGED <<worker_vars, is_shredding, cancel_at, find_btn, shred_btn,
                   cancel_btn, app_matching_files, workers>>

\* FileShredderApp._update_file_list
UpdateFileList ==
    /\ after_queue # << >>
    /\ Head(after_queue) = "_update_file_list"
    /\ after_queue' = Tail(after_queue)
    /\ shred_btn' = (app_matching_files > 0)
    /\ UNCHANGED <<worker_vars, is_shredding, cancel_at, find_btn, cancel_btn,
                   app_matching_files, searches, workers>>

\* FileShredderApp._reset_search_ui
ResetSearchUi ==
    /\ after_queue # << >>
    /\ Head(after_queue) = "_reset_search_ui"
    /\ after_queue' = Tail(after_queue)
    /\ find_btn' = TRUE
    /\ UNCHANGED <<worker_vars, is_shredding, cancel_at, shred_btn, cancel_btn,
                   app_matching_files, searches, workers>>

\* FileShredderApp._show_error, after the dialog is closed
ShowError ==
    /\ after_queue # << >>
    /\ Head(after_queue) = "_show_error"
    /\ after_queue' = Tail(after_queue)
    /\ is_shredding' = FALSE
    /\ find_btn' = TRUE
    /\ shred_btn' = FALSE
    /\ cancel_btn' = FALSE
    /\ UNCHANGED <<worker_vars, cancel_at, app_matching_files, searches, workers>>

\* FileShredderApp._shredding_complete
ShreddingComplete ==
    /\ after_queue # << >>
    /\ Head(after_queue) = "_shredding_complete"
    /\ after_queue' = Tail(after_queue)
    /\ is_shredding' = FALSE
    /\ find_btn' = TRUE
    /\ shred_btn' = FALSE
    /\ cancel_btn' = FALSE
    /\ app_matching_files' = 0
    /\ UNCHANGED <<worker_vars, cancel_at, searches, workers>>

\* FileShredderApp._clear_results, the Clear button (never disabled)
ClearResults ==
    /\ ~is_shredding
    /\ app_matching_files' = 0
    /\ shred_btn' = FALSE
    /\ UNCHANGED <<worker_vars, is_shredding, cancel_at, find_btn, cancel_btn,
                   searches, workers, after_queue>>

\* FileShredderApp._confirm_shred answered OK, then _shred_files: the Shred
\* button, a non-empty match list, and the is_shredding flag is the only
\* thing looked at before the thread is started
ConfirmShred ==
    /\ shred_btn
    /\ app_matching_files > 0
    /\ ~is_shredding
    /\ workers < MaxWorkers
    /\ is_shredding' = TRUE
    /\ find_btn' = FALSE
    /\ shred_btn' = FALSE
    /\ cancel_btn' = TRUE
    /\ workers' = workers + 1
    /\ UNCHANGED <<worker_vars, cancel_at, app_matching_files, searches,
                   after_queue>>

\* FileShredderApp._shred_files_thread: shred_files returns
ShredFilesThreadReturns ==
    /\ workers > 0
    /\ Len(after_queue) + 1 <= MaxQueue
    /\ workers' = workers - 1
    /\ after_queue' = After(<<"_shredding_complete">>)
    /\ UNCHANGED <<worker_vars, is_shredding, cancel_at, find_btn, shred_btn,
                   cancel_btn, app_matching_files, searches>>

\* FileShredderApp._shred_files_thread: shred_files raises
ShredFilesThreadRaises ==
    /\ workers > 0
    /\ Len(after_queue) + 2 <= MaxQueue
    /\ workers' = workers - 1
    /\ after_queue' = After(<<"_show_error", "_shredding_complete">>)
    /\ UNCHANGED <<worker_vars, is_shredding, cancel_at, find_btn, shred_btn,
                   cancel_btn, app_matching_files, searches>>

NextGui ==
    \/ FindFiles
    \/ FindFilesThreadReturns
    \/ FindFilesThreadRaises
    \/ UpdateFileList
    \/ ResetSearchUi
    \/ ShowError
    \/ ShreddingComplete
    \/ ClearResults
    \/ ConfirmShred
    \/ Cancel
    \/ ShredFilesThreadReturns
    \/ ShredFilesThreadRaises

SpecGui == InitGui /\ [][NextGui]_vars

TypeOK ==
    /\ pc \in {"idle", "call", "remove_empty", "open", "while", "write", "sync", "report",
               "verify", "vreport", "remove", "final", "done"}
    /\ result \in {"pending", "True", "False"}
    /\ dirty >= 0
    /\ bytes_written >= 0

\* ================================================================ claims
Done == pc = "done"
Last(q) == q[Len(q)]
NonEmptyCall == file_size > 0           \* the call got past the empty branch
EmptyCall ==                            \* an existing zero-length file
    /\ pc # "call"
    /\ Len(file) = 0
    /\ (exists \/ removes > 0)

\* C1: during one shred_file call on a non-empty file the fractions handed
\* to the progress callback never decrease, the values reported after each
\* pass's verification included.
C1_ProgressMonotonic ==
    NonEmptyCall =>
        \A i \in 1..(Len(calls) - 1) : Leq(calls[i], calls[i + 1])

\* C2 as stated: a True return of a non-empty file with a callback ends with
\* 1.0, reported after the delete; a False return never reported 1.0.  The
\* second half is read in the way most favourable to it: for pass counts the
\* data model admits (at least 1) and a callback that returns normally.
C2_OneOnlyOnSuccess ==
    /\ (Done /\ result = "True" /\ NonEmptyCall /\ callback) =>
          /\ Len(calls) > 0
          /\ Last(calls) = One
          /\ ~Last(on_disk)
    /\ (Done /\ result = "False" /\ total_passes >= 1 /\ err # "callback") =>
          \A i \in 1..Len(calls) : ~IsOne(calls[i])

\* C2 amended: a True return of a non-empty file with a callback ends with
\* 1.0, the only value reported after the delete; a False return reported
\* 1.0 only after every pass was completely written: with verify off as the
\* fraction of the last chunk of the last pass (before the delete), or as the
\* final callback, which then raised.
C2_OneAfterAllPasses ==
    /\ (Done /\ result = "True" /\ NonEmptyCall /\ callback) =>
          /\ Len(calls) > 0
          /\ Last(calls) = One
          /\ ~Last(on_disk)
          /\ \A i \in 1..(Len(calls) - 1) : on_disk[i]
    /\ (Done /\ result = "False") =>
          \A i \in 1..Len(calls) :
             IsOne(calls[i]) =>
                /\ passes_done >= total_passes
                /\ i = Len(calls) \/ i = Len(calls) - 1
                /\ \/ ~verify /\ on_disk[i]
                   \/ ~on_disk[i] /\ err = "callback" /\ i = Len(calls)

C2_Witness ==
    /\ Done /\ result = "True" /\ NonEmptyCall /\ callback
    /\ Len(calls) > 2
    /\ Last(calls) = One

\* C3: a True return for a file of S > 0 bytes under a configuration of P
\* passes (the configured count for BASIC, 7 for the standard method) has
\* written exactly P complete passes of S bytes each, all before the delete,
\* and the file is gone.
C3_ExactlyPPasses ==
    LET P == IF method = "dod" THEN 7 ELSE passes
    IN  (Done /\ result = "True" /\ NonEmptyCall /\ P >= 0) =>
            /\ passes_done = P
            /\ opens = P
            /\ total_written = P * file_size
            /\ passes_at_remove = P
            /\ removes = 1
            /\ ~exists

C3_Witness ==
    /\ Done /\ result = "True" /\ method = "basic" /\ passes = MaxPasses
    /\ file_size > ChunkLimit
    /\ passes_at_remove = MaxPasses

\* C4: for an existing zero-length file shred_file makes exactly one
\* os.remove call and returns True when it succeeds, never opens the file and
\* does no overwrite or verification I/O, whatever the method, pass count and
\* verify flag.
C4_EmptyFileOneDelete ==
    EmptyCall =>
        /\ pc \in {"remove_empty", "done"}
        /\ opens = 0
        /\ total_written = 0
        /\ reads = 0
        /\ file = << >>
        /\ Done => /\ removes = 1
                   /\ err \in {"none", "remove"}
                   /\ err = "none" => (result = "True" /\ ~exists)

C4_Witness ==
    /\ EmptyCall /\ Done /\ result = "True" /\ removes = 1
    /\ method = "dod" /\ verify

\* C5: shred_file on a zero-length file with a progress callback hands the
\* callback a final progress of 1.0.
C5_EmptyFileReportsOne ==
    (EmptyCall /\ Done /\ result = "True" /\ callback) =>
        /\ Len(calls) > 0
        /\ Last(calls) = One

Range(q) == {q[i] : i \in 1..Len(q)}
\* number of external byte changes made after the write of pass k
Changes(k) == Cardinality({i \in 1..Len(corrupt) : corrupt[i][1] = k})
\* the file is as the last verification read it
JustVerified == Len(verified) > 0 /\ Len(verified) = Len(pass_log)
VerifyFailed == Len(verified) > 0 /\ ~Last(verified)

\* C6: with verify enabled, when the verification of pass k fails shred_file
\* returns False at once: no later pass is opened or written, the file is
\* not deleted and still has its original length and pass k's data, and 1.0
\* is not reported.
C6_VerifyFailureAborts ==
    VerifyFailed =>
        LET k == Len(verified)
        IN  /\ verify
            /\ Done /\ result = "False"
            /\ pass_num = k /\ Len(pass_log) = k /\ opens = k
            /\ passes_done = k
            /\ total_written = k * file_size
            /\ exists /\ removes = 0
            /\ Len(file) = file_size
            /\ \A i \in 1..Len(file) :
                  file[i] = pass_log[k][1] \/ <<k, i>> \in Range(corrupt)
            /\ \A i \in 1..Len(calls) : ~IsOne(calls[i])

C6_Witness ==
    /\ VerifyFailed /\ err = "none"
    /\ Len(verified) = 2 /\ total_passes > 2
    /\ file_size > ChunkLimit

\* some chunk of the read-back is uniformly 0x00 or uniformly 0xFF
UniformChunk(content, fsz, cs) ==
    \E c \in 0..((fsz - 1) \div cs) :
        LET lo == c * cs + 1
            hi == Min((c + 1) * cs, fsz)
        IN  \/ \A i \in lo..hi : content[i] = Zeros
            \/ \A i \in lo..hi : content[i] = Ones

\* C7: the verification of a random-pattern pass is not byte-exact: it fails
\* exactly when some read-back chunk is uniformly 0x00 or uniformly 0xFF (so
\* a drawn 0x00 or 0xFF makes shred_file return False, and a read-back that
\* differs from the drawn byte without being uniform passes).
C7_RandomPassWeakCheck ==
    (JustVerified /\ Last(pass_log)[2] = "random" /\ err # "read") =>
        /\ Last(verified) = ~UniformChunk(file, file_size, chunk_size)
        /\ ~Last(verified) => (Done /\ result = "False")

\* C8: a fixed-pattern pass (0xFF or 0x00) over a file of any size S > 0
\* verifies successfully right after its write, and when one byte of the
\* file was changed between the write and the verification the verification
\* fails and shred_file returns False.
C8_FixedPassRoundTrip ==
    (JustVerified /\ Last(pass_log)[2] \in {"ones", "zeros"} /\ err # "read")
    =>  LET k == Len(verified)
        IN  /\ Changes(k) = 0 => Last(verified)
            /\ Changes(k) = 1 =>
                  (~Last(verified) /\ Done /\ result = "False")

C8_Witness ==
    /\ JustVerified /\ Last(pass_log)[2] = "zeros"
    /\ ~Last(verified) /\ err = "none"
    /\ file_size > ChunkLimit /\ file_size % ChunkLimit # 0
    /\ <<2, file_size>> \in Range(corrupt)

\* C9: the pattern of pass k depends on the method and k only: BASIC writes
\* 0xFF, 0x00, then one drawn byte per pass for every pass k >= 3; the
\* standard method writes its 7 passes ones, zeros, random, zeros, ones,
\* random, zeros whatever pass count is configured; a pass writes one byte
\* value throughout.
C9_PatternOfPass ==
    LET dod_types == <<"ones", "zeros", "random", "zeros", "ones", "random",
                       "zeros">>
        Expected(k) == IF method = "dod" THEN dod_types[k]
                       ELSE IF k = 1 THEN "ones"
                       ELSE IF k = 2 THEN "zeros" ELSE "random"
    IN  /\ Len(pass_log) <= (IF method = "dod" THEN 7 ELSE passes)
           \/ Len(pass_log) = 0
        /\ \A k \in 1..Len(pass_log) :
              /\ pass_log[k][2] = Expected(k)
              /\ Expected(k) = "ones" => pass_log[k][1] = 255
              /\ Expected(k) = "zeros" => pass_log[k][1] = 0
              /\ Expected(k) = "random" => pass_log[k][1] \in 0..255
        /\ (Done /\ result = "True" /\ NonEmptyCall /\ method = "dod") =>
              Len(pass_log) = 7
        /\ pc \in {"while", "write", "sync", "report", "verify", "vreport"} =>
              \A i \in 1..bytes_written :
                 \/ file[i] = Last(pass_log)[1]
                 \/ <<Len(pass_log), i>> \in Range(corrupt)

C9_Witness ==
    /\ Done /\ result = "True" /\ method = "dod" /\ passes = 1
    /\ Len(pass_log) = 7
    /\ pass_log[3][1] # pass_log[6][1]

\* C10: passes are sequential and durable in order: whenever a chunk is
\* written, the next pass is opened or the file is deleted, every chunk
\* written before has been flushed and synced.
C10_SyncedBeforeNextStep ==
    [][(\/ total_written' > total_written
        \/ opens' > opens
        \/ removes' > removes) => dirty = 0]_vars

C10_Witness ==
    /\ Done /\ result = "True" /\ NonEmptyCall
    /\ passes_done >= 2
    /\ file_size > ChunkLimit
    /\ dirty = 0

\* the passes the loop of this call runs
LoopPasses == IF total_passes > 0 THEN total_passes ELSE 0

\* C11: shred_file reports success only for a completely processed file: a
\* True return means every pass was fully written (and verified when verify
\* is on) and the delete succeeded; a failing open, write, sync, verification
\* or delete gives a False return, never an exception, and a failure before
\* the delete leaves the file in place.
C11_NoPartialSuccess ==
    /\ result \in {"pending", "True", "False"}
    /\ Done => result \in {"True", "False"}
    /\ result = "True" =>
          /\ Done /\ err = "none"
          /\ removes = 1 /\ ~exists
          /\ NonEmptyCall =>
                /\ passes_done = LoopPasses
                /\ total_written = LoopPasses * file_size
                /\ verify => /\ Len(verified) = LoopPasses
                             /\ \A k \in 1..Len(verified) : verified[k]
    /\ (err # "none" \/ VerifyFailed) => (Done /\ result = "False")
    /\ (\/ err \in {"open", "write", "sync", "read", "remove"}
        \/ VerifyFailed
        \/ err = "callback" /\ passes_at_remove = -1) => exists

C11_Witness ==
    /\ Done /\ result = "False" /\ err = "sync"
    /\ passes_done >= 1 /\ bytes_written < file_size
    /\ exists

\* ------------------------------------------------------ shred_files claims
BatchOver == bpc \in {"returned", "raised"}

\* C12: shred_files handles the paths one at a time in input order: a file
\* is started only when every earlier one has finished, every path is
\* attempted exactly once even after failures, and the completion callback
\* is invoked exactly once per path, in input order, with that path's own
\* result.
C12_InOrderOncePerPath ==
    /\ \A n \in 1..Len(started) : started[n] = n - 1
    /\ Len(started) <= Len(results) + 1
    /\ BatchOver => Len(started) = Len(files)
    /\ has_complete_cb =>
          /\ Len(complete_calls) <= Len(results)
          /\ \A n \in 1..Len(complete_calls) :
                complete_calls[n] = <<files[n], results[n] = "True">>
          /\ BatchOver => Len(complete_calls) = Len(files)

\* C13: shred_files never lets an exception out: whatever is raised while a
\* file is processed or reported through the callbacks, the call returns its
\* pair of counts.
C13_NeverPropagates == bpc # "raised"

\* C14: every call of the batch progress callback made while file number i
\* (0-based; i files are already completed) is being shredded carries the
\* path of that file and the value (i + f) / total_files, f being the
\* fraction shred_file just reported.
C14_BatchProgressValue ==
    /\ ~has_progress_cb => progress_call = << >>
    /\ progress_call # << >> =>
          /\ bpc = "shredding"
          /\ Len(calls) > 0
          /\ Len(results) < Len(files)
          /\ progress_call[2] = files[Len(results) + 1]
          /\ progress_call[1][1] * (Last(calls)[2] * Len(files)) =
                (Len(results) * Last(calls)[2] + Last(calls)[1])
                   * progress_call[1][2]

C14_Witness ==
    /\ bpc = "shredding" /\ has_progress_cb
    /\ Len(results) >= 1
    /\ Len(calls) >= 2
    /\ progress_call # << >>
    /\ ~IsOne(Last(calls))

\* C15: once the user has confirmed Cancel during a batch, the file being
\* shredded is finished and no further file of the batch is started.
C15_CancelStopsBatch ==
    cancel_at >= 0 =>
        \A n \in 1..Len(started) : started[n] <= cancel_at

\* ------------------------------------------------------- find_files claims
\* the candidate of the iteration that has just ended, and whether it was
\* appended to the matched set
Filed == fpc = "filed"
InMatched == Len(matching_files) > 0 /\ Last(matching_files)[1] = seen
Examined == fpc = "scan" /\ fpc' = "filed"
Appended ==
    /\ Len(matching_files') = Len(matching_files) + 1
    /\ SubSeq(matching_files', 1, Len(matching_files)) = matching_files
    /\ Last(matching_files')[1] = seen'

\* a name against the pieces of a raw pattern argument that are globs
HitsGlob(name, raw) ==
    \E k \in 1..Len(raw) :
        /\ raw[k] # Blank
        /\ raw[k].stem \in {"*", name.stem}
        /\ raw[k].ext \in {"*", name.ext}

HitsBoth(name) ==
    HitsGlob(name, args.pattern) /\ HitsGlob(name, args.exclude_pattern)

\* C16: a candidate whose name matches some include glob and also some
\* exclude glob is not appended to the matched set and adds exactly 1 to
\* the excluded count, whatever its metadata and content, in recursive and
\* in non-recursive mode.
C16_IncludeAndExcludeGlob ==
    [][(Examined /\ HitsBoth(latest'.c.name)) =>
          /\ matching_files' = matching_files
          /\ excluded_count' = excluded_count + 1]_vars

C16_Witness ==
    /\ Filed /\ seen = 2
    /\ HitsBoth(latest.c.name)
    /\ Len(exclude_patterns) = 2
    /\ ~Fnmatch(latest.c.name, exclude_patterns[1])
    /\ latest.c.ctime > 0
    /\ Len(matching_files) = 1
    /\ excluded_count = 1

\* C17: every enumerated candidate is in exactly one of three groups: it
\* matches no include glob and is neither appended nor counted; or it is
\* appended to the matched set once; or it adds exactly 1 to the excluded
\* count.  So len(matched) + excluded_count is the number of candidates
\* that match an include glob, and no candidate is in the matched set twice.
C17_ThreeGroups ==
    /\ [](/\ Len(matching_files) + excluded_count = include_hits
          /\ include_hits <= seen
          /\ \A m, n \in 1..Len(matching_files) :
                 m < n => matching_files[m][1] < matching_files[n][1]
          /\ \A m \in 1..Len(matching_files) :
                 matching_files[m][1] \in 1..seen)
    /\ [][Examined =>
            IF HitsGlob(latest'.c.name, args.pattern)
            THEN \/ Appended /\ excluded_count' = excluded_count
                 \/ /\ matching_files' = matching_files
                    /\ excluded_count' = excluded_count + 1
            ELSE /\ matching_files' = matching_files
                 /\ excluded_count' = excluded_count]_vars

C17_Witness ==
    /\ Filed /\ seen = 2
    /\ Cardinality({k \in 1..Len(args.pattern) :
                       /\ args.pattern[k] # Blank
                       /\ Fnmatch(latest.c.name, args.pattern[k])}) = 2
    /\ InMatched
    /\ Len(matching_files) = 1
    /\ excluded_count = 1

\* what the claims call a bound that is violated, an owner that is refused
BoundViolated(c) ==
    \/ args.created_after # None /\ c.ctime < args.created_after
    \/ args.created_before # None /\ c.ctime > args.created_before
    \/ args.modified_after # None /\ c.mtime < args.modified_after
    \/ args.modified_before # None /\ c.mtime > args.modified_before
OwnerRefused(c) == args.owner_pattern = "valid" /\ c.owner = "nomatch"

\* the candidate passed the name and the metadata filters
PassedNameAndMeta(c) ==
    /\ HitsGlob(c.name, args.pattern)
    /\ ~HitsGlob(c.name, args.exclude_pattern)
    /\ c.fault # "stat"
    /\ ~BoundViolated(c)
    /\ ~OwnerRefused(c)

\* occurrences of a pattern in the text extracted from the candidate: OCR
\* text is searched without regard to case
Occurrences(c, pat) ==
    IF c.name.ext \in ImageExts
    THEN Count(Lower(c.text), Lower(pat))
    ELSE Count(c.text, pat)

\* C18: with a content-include pattern and threshold T (and no content
\* exclusion), a readable file of a plain-text kind that passed the name and
\* metadata filters is in the matched set if and only if its text has at
\* least T non-overlapping case-sensitive occurrences of the pattern.
C18_TextIncludeThreshold ==
    (/\ Filed
     /\ TruthyText(args.content_pattern)
     /\ ~TruthyText(args.exclude_content_pattern)
     /\ latest.c.name.ext \in TextExts
     /\ latest.c.fault = "none"
     /\ PassedNameAndMeta(latest.c)) =>
        (InMatched <=>
            Count(latest.c.text, args.content_pattern)
                >= args.content_min_occurrences)

\* the kinds find_files hands to the content check
Checkable(name) ==
    \/ name.ext \in GateTextExts
    \/ name.ext = "pdf" /\ env.PyPDF2
    \/ name.ext \in ImageExts /\ args.ocr_enabled /\ env.ocr_support_available

\* the candidate passed every filter before the content exclusion
PassedBeforeExclude(c) ==
    /\ PassedNameAndMeta(c)
    /\ TruthyText(args.content_pattern) =>
          Occurrences(c, args.content_pattern) >= args.content_min_occurrences

C20_FailSafe ==
    (/\ Filed
     /\ \/ latest.c.fault = "stat" /\ latest.r.stats > 0
        \/ latest.c.fault = "read" /\ latest.r.checks > 0) =>
        ~InMatched

\* ------------------------------------------------ shred_file, continued
\* total_effective_passes of the claim: P, or 2P with verification
EffectivePasses == IF verify THEN 2 * total_passes ELSE total_passes

\* C24: every fraction reported before the final 1.0 is
\* ((k - 1) + bytes_written / file_size) / E for the pass k in progress,
\* E = P without and 2P with verification, the value reported after the
\* verification of pass k included, and lies in [0.0, 1.0].
C24_ProgressFormula ==
    [][(Len(calls') = Len(calls) + 1 /\ pc \in {"report", "vreport"}) =>
          /\ Last(calls')[1] * (file_size * EffectivePasses) =
                ((pass_num - 1) * file_size + bytes_written) * Last(calls')[2]
          /\ Leq(Frac(0, 1), Last(calls'))
          /\ Leq(Last(calls'), One)]_vars

\* C25: a pass opens the file without truncating it and writes from offset
\* 0 in chunks of min(chunk limit, file_size) bytes, the last one exactly
\* the remaining bytes: a finished pass wrote file_size bytes, bytes_written
\* never exceeds file_size and the file keeps its length throughout.
C25_PassWritesWholeFile ==
    /\ [](NonEmptyCall =>
            /\ Len(file) = file_size
            /\ bytes_written <= file_size
            /\ opens > 0 => chunk_size = Min(ChunkLimit, file_size)
            /\ pc \in {"verify", "vreport"} => bytes_written = file_size
            /\ total_written =
                  (IF Len(pass_log) > 0 THEN Len(pass_log) - 1 ELSE 0)
                     * file_size + bytes_written
            /\ passes_done * file_size <= total_written)
    /\ [][pc = "open" => file' = file]_vars
    /\ [][(pc = "write" /\ pc' = "sync") =>
            /\ bytes_written' - bytes_written =
                  Min(chunk_size, file_size - bytes_written)
            /\ bytes_written' > bytes_written
            /\ \A k \in 1..Len(file) :
                  (k <= bytes_written \/ k > bytes_written') =>
                      file'[k] = file[k]]_vars

C25_Witness ==
    /\ Done /\ result = "True"
    /\ file_size > ChunkLimit
    /\ file_size % ChunkLimit # 0
    /\ passes_done >= 2
    /\ total_written = passes_done * file_size
    /\ Len(file) = file_size

\* C29: whatever the configured method, pass count and verify flag,
\* shred_file deletes a non-empty file only after at least one complete
\* overwrite pass of this call.
C29_NoDeleteWithoutPass ==
    (NonEmptyCall /\ removes > 0) => passes_at_remove >= 1

\* ------------------------------------------------ shred_files, continued
\* C28: when shred_files returns (s, f), s + f is the number of input paths,
\* s counting the paths whose shred_file returned True and f the others,
\* also when a callback raised; between iterations s + f is the number of
\* finished paths.
C28_CountsAddUp ==
    /\ bpc \in {"loop", "returned"} =>
          /\ successful + failed = Len(results)
          /\ successful =
                Cardinality({n \in 1..Len(results) : results[n] = "True"})
    /\ bpc = "returned" => successful + failed = Len(files)

\* ------------------------------------------------- find_files, continued
\* C21: for a root that does not exist, is not a directory or cannot be
\* read, find_files raises, in recursive as in non-recursive mode; it never
\* returns a matched set.
C21_UntraversableRootRaises ==
    env.root = "untraversable" => fpc # "returned"

\* C22: with an owner pattern that is not a valid regular expression
\* find_files raises before the directory is listed or walked and before any
\* file is stat-ed or read; no matched set is built.
C22_InvalidOwnerRaisesFirst ==
    args.owner_pattern = "invalid" =>
        /\ fpc \in {"enter", "raised"}
        /\ seen = 0
        /\ latest = << >>
        /\ matching_files = << >>
        /\ excluded_count = 0

C22_Witness ==
    /\ args.owner_pattern = "invalid"
    /\ env.root = "dir"
    /\ fpc = "raised"

\* C23: a candidate that passed the name filters and was stat-ed is
\* excluded by the time bounds if and only if some supplied bound is
\* violated; every supplied bound is applied whatever its value, and a time
\* equal to a bound does not exclude.
C23_TimeBounds ==
    (/\ Filed
     /\ HitsGlob(latest.c.name, args.pattern)
     /\ ~HitsGlob(latest.c.name, args.exclude_pattern)
     /\ latest.c.fault # "stat"
     /\ args.owner_pattern = "none"
     /\ ~UsesContent(args)) =>
        (~InMatched <=> BoundViolated(latest.c))

\* C26: a name-excluded candidate is never stat-ed, a candidate excluded by
\* a time bound has no owner lookup and no content read, a candidate
\* excluded by the owner filter has no content read, and a candidate that
\* failed the content-include filter is not read for the content-exclude
\* filter.
C26_ShortCircuit ==
    Filed =>
        /\ HitsGlob(latest.c.name, args.exclude_pattern) =>
              latest.r.stats = 0
        /\ (latest.r.stats = 1 /\ latest.c.fault # "stat"
              /\ BoundViolated(latest.c)) =>
                 latest.r.lookups = 0 /\ latest.r.checks = 0
        /\ (latest.r.stats = 1 /\ latest.c.fault # "stat"
              /\ OwnerRefused(latest.c) /\ env.pwd) =>
                 latest.r.checks = 0
        /\ (TruthyText(args.content_pattern) /\ latest.r.checks > 0
              /\ latest.r.info.include = None) =>
                 latest.r.checks = 1

\* C30: with a content-include pattern and threshold T, every file in the
\* matched set carries an 'include' annotation with at least T occurrences;
\* a file whose content was not or could not be checked is not matched.
C30_MatchedHaveIncludeInfo ==
    TruthyText(args.content_pattern) =>
        \A m \in 1..Len(matching_files) :
            /\ matching_files[m][2].include # None
            /\ matching_files[m][2].include >= args.content_min_occurrences

\* C27: at most one shredding worker thread is inside shred_files at any
\* time, over every sequence of user events (find by button or by Enter,
\* confirm shred, cancel, error dialog, completion).
C27_OneWorker == workers <= 1

====
